---- MODULE Spec2Model ----
(***************************************************************************)
(* A model of aioredis/util.py: the command serializer (encode_command),   *)
(* the future adapters (wait_ok, wait_convert, wait_make_dict), the cursor *)
(* iterators (_ScanIter, _ScanIterPairs) and the future settlement helpers *)
(* (_set_result, _set_exception).                                          *)
(*                                                                         *)
(* Python values are tagged records [k, b, n, items]:                      *)
(*   k      the exact Python type of the value (type(v).__name__)          *)
(*   b      the bytes of a bytes/bytearray, the code points of a str       *)
(*   n      the number of an int or bool; a float holds its value in       *)
(*          tenths (31 is 3.1)                                             *)
(*   items  the elements of a list                                         *)
(***************************************************************************)
EXTENDS Integers, Sequences, FiniteSets, TLC

VARIABLES
    encArgs,    \* encode_command: the argument list of the last call
    encRes,     \* encode_command: what the last call returned or raised
    fut,        \* the waiter future: its _state and its result or exception
    setCalls,   \* the _set_result/_set_exception/cancel calls made, in order
    lastArg,    \* the result or exception the last of those calls was given
    adapter,    \* the adapter coroutine awaiting the future, and its position
    adRes,      \* what the adapter coroutine returned or raised
    convCalls,  \* how many times wait_convert's type_ was called
    variant,    \* the iterator class: "_ScanIter" or "_ScanIterPairs"
    cur,        \* the iterator's _cur
    ret,        \* the iterator's _ret
    pc,         \* each task's position in __anext__: "idle" or "await"
    calls,      \* the cursors passed to the scan primitive, in order
    replies,    \* what the scan primitive returned, in order
    out,        \* what the __anext__ calls returned or raised, in order
    lenCache,   \* the keys the lru_cache of _bytes_len holds, oldest use first
    store,      \* the (key, value) items of a coerced_keys_dict, in order
    inserted,   \* the keys its __setitem__ was given
    dictOp,     \* the last operation on it: its key and what it gave
    decObj,     \* the object decode was called with
    decEnc,     \* and the encoding
    decRes      \* what decode returned or raised

encVars  == <<encArgs, encRes, lenCache>>
futVars  == <<fut, setCalls, lastArg, adapter, adRes, convCalls>>
scanVars == <<variant, cur, ret, pc, calls, replies, out>>
dictVars == <<store, inserted, dictOp>>
decVars  == <<decObj, decEnc, decRes>>
vars     == <<encVars, futVars, scanVars, dictVars, decVars>>

----------------------------------------------------------------------------
(* Bounds of the model *)

\* encode_command is called with every argument list of at most MaxArgs values
MaxArgs == 2
\* and with ManyArgs copies of one value
ManyArgs == 10
\* the scan primitive is called at most MaxScans times
MaxScans == 3
\* __anext__ is called at most MaxNext times
MaxNext == 5
\* at most MaxSets settlement calls are made on the waiter future
MaxSets == 3
\* __anext__ calls that two tasks sharing an iterator make between them
MaxShared == 2
\* encode_command is called with arguments of 0, 1, ... MaxSized - 1 bytes
MaxSized == 1026
\* a coerced_keys_dict holds at most MaxItems items
MaxItems == 2
\* decode is called with lists nested at most MaxDepth deep
MaxDepth == 2

----------------------------------------------------------------------------
(* Python values *)

PyBytes(s)   == [k |-> "bytes",     b |-> s,    n |-> 0, items |-> <<>>]
PyByteArray(s) == [k |-> "bytearray", b |-> s,    n |-> 0, items |-> <<>>]
PyStr(s)     == [k |-> "str",       b |-> s,    n |-> 0, items |-> <<>>]
PyInt(i)     == [k |-> "int",       b |-> <<>>, n |-> i, items |-> <<>>]
PyFloat(t)   == [k |-> "float",     b |-> <<>>, n |-> t, items |-> <<>>]
PyBool(i)    == [k |-> "bool",      b |-> <<>>, n |-> i, items |-> <<>>]
PyList(xs)   == [k |-> "list",      b |-> <<>>, n |-> 0, items |-> xs]
PyTuple(xs)  == [k |-> "tuple",     b |-> <<>>, n |-> 0, items |-> xs]
PyDict(kvs)  == [k |-> "dict",      b |-> <<>>, n |-> 0, items |-> kvs]
PyNone       == [k |-> "NoneType",  b |-> <<>>, n |-> 0, items |-> <<>>]
\* an exception object of class cls
PyExc(cls)   == [k |-> cls,         b |-> <<>>, n |-> 0, items |-> <<>>]

\* ASCII text as code points
Ascii(str) ==
    CASE str = "0"      -> <<48>>
      [] str = "5"      -> <<53>>
      [] str = "1"      -> <<49>>
      [] str = "42"     -> <<52, 50>>
      [] str = "x"      -> <<120>>
      [] str = "1x"     -> <<49, 120>>
      [] str = "OK"     -> <<79, 75>>
      [] str = "ok"     -> <<111, 107>>
      [] str = "PONG"   -> <<80, 79, 78, 71>>
      [] str = "QUEUED" -> <<81, 85, 69, 85, 69, 68>>
      [] str = "SET"    -> <<83, 69, 84>>
      [] str = "key"    -> <<107, 101, 121>>
      [] str = "*"      -> <<42>>
      [] str = "$"      -> <<36>>
      [] str = "-"      -> <<45>>
      [] str = "."      -> <<46>>

\* Python's truth value of v, as `not v` and `while ... and v` test it
Truthy(v) ==
    CASE v.k \in {"bytes", "bytearray", "str"} -> Len(v.b) > 0
      [] v.k \in {"int", "float", "bool"}      -> v.n # 0
      [] v.k \in {"list", "tuple", "dict"}     -> Len(v.items) > 0
      [] OTHER                                 -> FALSE

\* Python's a == b: bytes and bytearray compare by content, a str equals only
\* a str, numbers compare by value
PyEq(a, b) ==
    CASE a.k \in {"bytes", "bytearray"} -> b.k \in {"bytes", "bytearray"} /\ a.b = b.b
      [] a.k = "str"                    -> b.k = "str" /\ a.b = b.b
      [] a.k \in {"int", "bool"}        ->
            \/ b.k \in {"int", "bool"} /\ a.n = b.n
            \/ b.k = "float" /\ 10 * a.n = b.n
      [] a.k = "float"                  ->
            \/ b.k = "float" /\ a.n = b.n
            \/ b.k \in {"int", "bool"} /\ a.n = 10 * b.n
      [] a.k \in {"list", "tuple", "dict"} -> b.k = a.k /\ a.items = b.items
      [] OTHER                          -> a = b

\* Python's `v in (x, y)`
PyIn(v, tuple) == \E i \in 1..Len(tuple) : PyEq(v, tuple[i])

----------------------------------------------------------------------------
(* Value Encoder: _converters, _bytes_len *)

CRLF == <<13, 10>>

RECURSIVE Digits(_)
\* the decimal digits of a natural number, as code points
Digits(m) ==
    IF m < 10 THEN <<48 + m>> ELSE Digits(m \div 10) \o <<48 + (m % 10)>>

\* str(i) of an int
StrOfInt(i) == IF i < 0 THEN Ascii("-") \o Digits(0 - i) ELSE Digits(i)

\* str(f) of a float of t tenths: repr gives the shortest decimal that reads
\* back as the same double, "<integer part>.<tenth>" for these values
StrOfFloat(t) ==
    LET a == IF t < 0 THEN 0 - t ELSE t
    IN  (IF t < 0 THEN Ascii("-") ELSE <<>>)
            \o Digits(a \div 10) \o Ascii(".") \o Digits(a % 10)

\* whether code point c is a surrogate, which UTF-8 cannot encode
IsSurrogate(c) == c >= 55296 /\ c <= 57343

\* the UTF-8 bytes of one code point
Utf8Char(c) ==
    CASE c < 128   -> <<c>>
      [] c >= 128 /\ c < 2048 ->
            <<192 + (c \div 64), 128 + (c % 64)>>
      [] c >= 2048 /\ c < 65536 ->
            <<224 + (c \div 4096), 128 + ((c \div 64) % 64), 128 + (c % 64)>>
      [] OTHER ->
            <<240 + (c \div 262144), 128 + ((c \div 4096) % 64),
              128 + ((c \div 64) % 64), 128 + (c % 64)>>

RECURSIVE Utf8Bytes(_)
Utf8Bytes(s) ==
    IF s = <<>> THEN <<>> ELSE Utf8Char(Head(s)) \o Utf8Bytes(Tail(s))

\* s.encode('utf-8'): the bytes, or UnicodeEncodeError on a lone surrogate
StrEncode(s) ==
    IF \E i \in 1..Len(s) : IsSurrogate(s[i])
    THEN [ok |-> FALSE, b |-> <<>>, exc |-> "UnicodeEncodeError"]
    ELSE [ok |-> TRUE, b |-> Utf8Bytes(s), exc |-> ""]

\* the converters with bool taken for an int, as an isinstance test would
ConvertersIsInstance(val) ==
    CASE val.k \in {"bytes", "bytearray"} ->
            [ok |-> TRUE, b |-> val.b, exc |-> ""]
      [] val.k = "str"   -> StrEncode(val.b)
      [] val.k \in {"int", "bool"} -> StrEncode(StrOfInt(val.n))
      [] val.k = "float" -> StrEncode(StrOfFloat(val.n))
      [] OTHER           -> [ok |-> FALSE, b |-> <<>>, exc |-> "KeyError"]

\* _converters[type(val)](val): the bytes of val; ok is FALSE, and exc the
\* exception, when the lookup raises KeyError (type(val) is no key) or the
\* converter raises
_converters(val) ==
    CASE val.k \in {"bytes", "bytearray"} ->
            [ok |-> TRUE, b |-> val.b, exc |-> ""]
      [] val.k = "str"   -> StrEncode(val.b)
      [] val.k = "int"   -> StrEncode(StrOfInt(val.n))
      [] val.k = "float" -> StrEncode(StrOfFloat(val.n))
      [] OTHER           -> [ok |-> FALSE, b |-> <<>>, exc |-> "KeyError"]

\* _bytes_len(nsized): str(nsized).encode('utf-8')
_bytes_len(nsized) == Utf8Bytes(StrOfInt(nsized))

\* @lru_cache(maxsize=1024)
maxsize == 1024

\* a cache that keeps every key it was given
CacheTouchNoEvict(cache, nsized) ==
    IF \E i \in 1..Len(cache) : cache[i] = nsized
    THEN SelectSeq(cache, LAMBDA key : key # nsized) \o <<nsized>>
    ELSE Append(cache, nsized)

\* the keys of the lru_cache after a call _bytes_len(nsized): a key it holds
\* becomes the latest used, a new key takes the place of the oldest used
\* when the cache is full
CacheTouch(cache, nsized) ==
    IF \E i \in 1..Len(cache) : cache[i] = nsized
    THEN SelectSeq(cache, LAMBDA key : key # nsized) \o <<nsized>>
    ELSE IF Len(cache) >= maxsize
    THEN Append(Tail(cache), nsized)
    ELSE Append(cache, nsized)

----------------------------------------------------------------------------
(* Command Serializer: encode_command *)

RECURSIVE Join(_)
\* b''.join(parts)
Join(parts) ==
    IF parts = <<>> THEN <<>> ELSE Head(parts) \o Join(Tail(parts))

TypeError(arg) == [ok |-> FALSE, exc |-> "TypeError", arg |-> arg, buf |-> <<>>]

RECURSIVE EncodeLoopCharLen(_, _, _)
\* the loop with the length prefix taken from the argument, not from its
\* encoding: len(arg) for bytes and text, the encoding's length otherwise
EncodeLoopCharLen(args, i, parts) ==
    IF i > Len(args)
    THEN [ok |-> TRUE, exc |-> "", arg |-> PyNone, buf |-> Join(parts)]
    ELSE LET barg == _converters(args[i])
             size == IF args[i].k = "str" THEN Len(args[i].b) ELSE Len(barg.b)
         IN  IF ~barg.ok
             THEN TypeError(args[i])
             ELSE EncodeLoopCharLen(args, i + 1,
                     parts \o <<Ascii("$"), _bytes_len(size), CRLF,
                                barg.b, CRLF>>)

RECURSIVE EncodeLoop(_, _, _)
\* the for loop of encode_command from argument i on, then the return
EncodeLoop(args, i, parts) ==
    IF i > Len(args)
    THEN [ok |-> TRUE, exc |-> "", arg |-> PyNone, buf |-> Join(parts)]
    ELSE LET barg == _converters(args[i])
         IN  IF ~barg.ok
             THEN TypeError(args[i])
             ELSE EncodeLoop(args, i + 1,
                     parts \o <<Ascii("$"), _bytes_len(Len(barg.b)), CRLF,
                                barg.b, CRLF>>)

\* encode_command(*args)
encode_command(args) ==
    EncodeLoop(args, 1, <<Ascii("*"), _bytes_len(Len(args)), CRLF>>)

RECURSIVE CacheLoop(_, _, _)
\* the _bytes_len calls of the for loop from argument i on: one for each
\* argument up to the first that has no encoding
CacheLoop(args, i, cache) ==
    IF i > Len(args) THEN cache
    ELSE LET barg == _converters(args[i])
         IN  IF ~barg.ok THEN cache
             ELSE CacheLoop(args, i + 1, CacheTouch(cache, Len(barg.b)))

\* the cache of _bytes_len after encode_command(*args)
CacheAfter(cache, args) == CacheLoop(args, 1, CacheTouch(cache, Len(args)))

\* the values encode_command is called with: the four kinds, bytearray, and
\* kinds that are no key of _converters
ArgValues ==
    { PyBytes(<<>>), PyBytes(Ascii("SET")), PyBytes(CRLF),
      PyBytes(<<0, 255, 36, 49, 13, 10, 42, 50, 13, 10, 7>>),
      PyByteArray(Ascii("key")),
      PyStr(Ascii("key")), PyStr(<<233>>), PyStr(<<8364, 120>>),
      PyStr(<<128512>>), PyStr(<<120, 55296>>),
      PyInt(42), PyInt(0), PyInt(0 - 7), PyFloat(31), PyFloat(0 - 5),
      PyBool(1), PyNone, PyList(<<PyInt(1)>>) }

RECURSIVE SeqsUpTo(_, _)
\* the sequences of at most n elements of S
SeqsUpTo(S, n) ==
    IF n = 0 THEN {<<>>}
    ELSE LET shorter == SeqsUpTo(S, n - 1)
         IN  shorter \cup {Append(s, x) : s \in shorter, x \in S}

NoResult == [ok |-> FALSE, exc |-> "not called", arg |-> PyNone, buf |-> <<>>]

\* a call encode_command(*args)
EncodeCommand ==
    /\ encRes = NoResult
    /\ \E args \in SeqsUpTo(ArgValues, MaxArgs) :
          /\ encArgs' = args
          /\ encRes' = encode_command(args)
          /\ lenCache' = CacheAfter(lenCache, args)
    /\ UNCHANGED <<futVars, scanVars, dictVars, decVars>>

\* a call encode_command(v, v, ..., v) with ManyArgs arguments
EncodeCommandMany ==
    /\ encRes = NoResult
    /\ \E v \in ArgValues :
          /\ encArgs' = [i \in 1..ManyArgs |-> v]
          /\ encRes' = encode_command(encArgs')
          /\ lenCache' = CacheAfter(lenCache, encArgs')
    /\ UNCHANGED <<futVars, scanVars, dictVars, decVars>>

\* the length the next call of a run of calls with ever longer arguments
\* takes: 0, then one more than the call before
NextSize == IF encRes = NoResult THEN 0 ELSE Len(encArgs[1].b) + 1

\* a call encode_command(arg) with a blob of NextSize bytes, b'x' or b'y'
EncodeSized ==
    /\ NextSize < MaxSized
    /\ \E arg \in {PyBytes([i \in 1..NextSize |-> 120]),
                    PyBytes([i \in 1..NextSize |-> 121])} :
          /\ encArgs' = <<arg>>
          /\ encRes' = encode_command(<<arg>>)
          /\ lenCache' = CacheAfter(lenCache, <<arg>>)
    /\ UNCHANGED <<futVars, scanVars, dictVars, decVars>>

----------------------------------------------------------------------------
(* A reference RESP request parser: *<N>\r\n ( $<len>\r\n<bytes>\r\n ){N} *)

IsDigit(c) == c >= 48 /\ c <= 57

RECURSIVE ReadNumber(_, _, _, _)
\* the decimal number at buf[pos..] up to \r\n: [ok, val, pos after \r\n]
ReadNumber(buf, pos, val, seen) ==
    IF pos > Len(buf) THEN [ok |-> FALSE, val |-> 0, pos |-> pos]
    ELSE IF IsDigit(buf[pos])
         THEN ReadNumber(buf, pos + 1, 10 * val + (buf[pos] - 48), TRUE)
    ELSE IF /\ seen
            /\ pos + 1 <= Len(buf)
            /\ buf[pos] = 13
            /\ buf[pos + 1] = 10
         THEN [ok |-> TRUE, val |-> val, pos |-> pos + 2]
    ELSE [ok |-> FALSE, val |-> 0, pos |-> pos]

RECURSIVE ReadBulks(_, _, _, _)
\* `left` bulk strings from buf[pos..], which must end the buffer
ReadBulks(buf, pos, left, acc) ==
    IF left = 0
    THEN [ok |-> pos = Len(buf) + 1, args |-> acc]
    ELSE IF pos > Len(buf) \/ buf[pos] # 36
         THEN [ok |-> FALSE, args |-> acc]
    ELSE LET size == ReadNumber(buf, pos + 1, 0, FALSE)
             stop == size.pos + size.val
         IN  IF /\ size.ok
                /\ stop + 1 <= Len(buf)
                /\ buf[stop] = 13
                /\ buf[stop + 1] = 10
             THEN ReadBulks(buf, stop + 2, left - 1,
                     Append(acc, SubSeq(buf, size.pos, stop - 1)))
             ELSE [ok |-> FALSE, args |-> acc]

ParseRESP(buf) ==
    IF buf = <<>> \/ buf[1] # 42
    THEN [ok |-> FALSE, args |-> <<>>]
    ELSE LET count == ReadNumber(buf, 2, 0, FALSE)
         IN  IF count.ok
             THEN ReadBulks(buf, count.pos, count.val, <<>>)
             ELSE [ok |-> FALSE, args |-> <<>>]

----------------------------------------------------------------------------
(* Response Decoder: decode *)

IsCont(c) == c >= 128 /\ c <= 191

RECURSIVE Utf8Decode(_, _)
\* bs.decode('utf-8') from the bytes bs on, appended to acc; ok is FALSE for
\* UnicodeDecodeError
Utf8Decode(bs, acc) ==
    IF bs = <<>> THEN [ok |-> TRUE, s |-> acc]
    ELSE LET b0 == bs[1]
             size == CASE b0 < 128 -> 1
                       [] b0 >= 194 /\ b0 <= 223 -> 2
                       [] b0 >= 224 /\ b0 <= 239 -> 3
                       [] b0 >= 240 /\ b0 <= 244 -> 4
                       [] OTHER -> 0
         IN  IF size = 0 \/ Len(bs) < size
                \/ \E i \in 2..size : ~IsCont(bs[i])
             THEN [ok |-> FALSE, s |-> <<>>]
             ELSE LET c == CASE size = 1 -> b0
                             [] size = 2 -> (b0 - 192) * 64 + (bs[2] - 128)
                             [] size = 3 -> (b0 - 224) * 4096
                                            + (bs[2] - 128) * 64 + (bs[3] - 128)
                             [] size = 4 -> (b0 - 240) * 262144
                                            + (bs[2] - 128) * 4096
                                            + (bs[3] - 128) * 64 + (bs[4] - 128)
                  IN  IF \/ size = 3 /\ (c < 2048 \/ IsSurrogate(c))
                         \/ size = 4 /\ (c < 65536 \/ c > 1114111)
                      THEN [ok |-> FALSE, s |-> <<>>]
                      ELSE Utf8Decode(SubSeq(bs, size + 1, Len(bs)),
                                      Append(acc, c))

\* obj.decode(encoding) of a bytes object
BytesDecode(bs, encoding) ==
    CASE encoding = "utf-8" ->
            LET d == Utf8Decode(bs, <<>>)
            IN  IF d.ok THEN [ok |-> TRUE, val |-> PyStr(d.s)]
                ELSE [ok |-> FALSE, val |-> PyExc("UnicodeDecodeError")]
      [] encoding = "latin-1" -> [ok |-> TRUE, val |-> PyStr(bs)]
      [] OTHER -> [ok |-> FALSE, val |-> PyExc("LookupError")]

\* a decode that converts the blobs of a list and leaves the lists in it as
\* they are
DecodeShallow(obj, encoding) ==
    CASE obj.k = "bytes" -> BytesDecode(obj.b, encoding)
      [] obj.k = "list"  ->
            IF \E i \in 1..Len(obj.items) :
                  /\ obj.items[i].k = "bytes"
                  /\ ~BytesDecode(obj.items[i].b, encoding).ok
            THEN [ok |-> FALSE, val |-> PyExc("UnicodeDecodeError")]
            ELSE [ok |-> TRUE,
                  val |-> PyList([i \in 1..Len(obj.items) |->
                            IF obj.items[i].k = "bytes"
                            THEN BytesDecode(obj.items[i].b, encoding).val
                            ELSE obj.items[i]])]
      [] OTHER           -> [ok |-> TRUE, val |-> obj]

RECURSIVE decode(_, _)
RECURSIVE DecodeList(_, _, _)
\* [decode(o, encoding) for o in obj]: the first failure ends it
DecodeList(xs, encoding, acc) ==
    IF xs = <<>> THEN [ok |-> TRUE, val |-> PyList(acc)]
    ELSE LET d == decode(Head(xs), encoding)
         IN  IF d.ok THEN DecodeList(Tail(xs), encoding, Append(acc, d.val))
             ELSE d

\* decode(obj, encoding)
decode(obj, encoding) ==
    CASE obj.k = "bytes" -> BytesDecode(obj.b, encoding)
      [] obj.k = "list"  -> DecodeList(obj.items, encoding, <<>>)
      [] OTHER           -> [ok |-> TRUE, val |-> obj]

----------------------------------------------------------------------------
(* Pending Result: asyncio.Future as util.py uses it, _set_result,         *)
(* _set_exception                                                          *)

PendingFuture == [state |-> "PENDING", outcome |-> "none", value |-> PyNone]

\* fut.done(), fut.cancelled()
done(f)      == f.state # "PENDING"
cancelled(f) == f.state = "CANCELLED"

\* fut.set_result(result), fut.set_exception(exception) on a pending future
set_result(f, result) ==
    [state |-> "FINISHED", outcome |-> "result", value |-> result]
set_exception(f, exception) ==
    [state |-> "FINISHED", outcome |-> "exception", value |-> exception]

\* fut.cancel(): a future that is done stays as it is
cancel(f) ==
    IF done(f) THEN f
    ELSE [state |-> "CANCELLED", outcome |-> "cancelled", value |-> PyNone]

\* _set_result that takes a cancelled future for a pending one
SetResultOverCancelled(f, result) ==
    IF done(f) /\ ~cancelled(f)
    THEN [fut |-> f, raised |-> "AssertionError"]
    ELSE [fut |-> set_result(f, result), raised |-> ""]

\* _set_result that only logs a future that is already done
SetResultNoAssert(f, result) ==
    IF done(f)
    THEN [fut |-> f, raised |-> ""]
    ELSE [fut |-> set_result(f, result), raised |-> ""]

\* _set_result(fut, result): the future afterwards and the exception raised;
\* assert statements are executed (the interpreter's default)
_set_result(f, result) ==
    IF done(f)
    THEN [fut |-> f,
          raised |-> IF cancelled(f) THEN "" ELSE "AssertionError"]
    ELSE [fut |-> set_result(f, result), raised |-> ""]

\* _set_exception(fut, exception)
_set_exception(f, exception) ==
    IF done(f)
    THEN [fut |-> f,
          raised |-> IF cancelled(f) THEN "" ELSE "AssertionError"]
    ELSE [fut |-> set_exception(f, exception), raised |-> ""]

\* `yield from fut` once fut is done: its result, or the exception it raises
Await(f) ==
    CASE f.outcome = "result"    -> [ok |-> TRUE, val |-> f.value]
      [] f.outcome = "exception" -> [ok |-> FALSE, val |-> f.value]
      [] OTHER -> [ok |-> FALSE, val |-> PyExc("CancelledError")]

----------------------------------------------------------------------------
(* Future Adapters: wait_ok, wait_convert, wait_make_dict *)

Return(v)   == [kind |-> "return", val |-> v, conv |-> 0]
Raise(e)    == [kind |-> "raise",  val |-> e, conv |-> 0]

\* the tuples (b'QUEUED', 'QUEUED') and (b'OK', 'OK')
QUEUED == <<PyBytes(Ascii("QUEUED")), PyStr(Ascii("QUEUED"))>>
OK     == <<PyBytes(Ascii("OK")), PyStr(Ascii("OK"))>>

\* wait_ok that knows only the binary sentinel
WaitOkBinaryOnly(f) ==
    LET res == Await(f)
    IN  IF ~res.ok THEN Raise(res.val)
        ELSE IF PyEq(res.val, QUEUED[1]) THEN Return(res.val)
        ELSE Return(PyBool(IF PyIn(res.val, OK) THEN 1 ELSE 0))

\* wait_ok(fut), resumed with fut done
wait_ok(f) ==
    LET res == Await(f)
    IN  IF ~res.ok THEN Raise(res.val)
        ELSE IF PyIn(res.val, QUEUED) THEN Return(res.val)
        ELSE Return(PyBool(IF PyIn(res.val, OK) THEN 1 ELSE 0))

RECURSIVE ParseDigits(_, _)
\* the value of a non-empty run of ASCII digits, -1 when s is not one
ParseDigits(s, acc) ==
    IF s = <<>> THEN acc
    ELSE IF IsDigit(Head(s)) THEN ParseDigits(Tail(s), 10 * acc + Head(s) - 48)
    ELSE 0 - 1

\* int(v)
IntOf(v) ==
    CASE v.k \in {"bytes", "bytearray", "str"} ->
            LET neg  == v.b # <<>> /\ Head(v.b) = 45
                body == IF neg THEN Tail(v.b) ELSE v.b
                m    == IF body = <<>> THEN 0 - 1 ELSE ParseDigits(body, 0)
            IN  IF m < 0 THEN [ok |-> FALSE, val |-> PyExc("ValueError")]
                ELSE [ok |-> TRUE, val |-> PyInt(IF neg THEN 0 - m ELSE m)]
      [] v.k \in {"int", "bool"} -> [ok |-> TRUE, val |-> PyInt(v.n)]
      [] v.k = "float" ->
            [ok |-> TRUE,
             val |-> PyInt(IF v.n < 0 THEN 0 - ((0 - v.n) \div 10)
                           ELSE v.n \div 10)]
      [] OTHER -> [ok |-> FALSE, val |-> PyExc("TypeError")]

\* type_(result, **kwargs) for the conversion functions the callers pass:
\* int, bool and decode; kwargs is "" (none given) or the encoding=... given
PyApply(type_, result, kwargs) ==
    CASE type_ = "int" ->
            IF kwargs = "" THEN IntOf(result)
            ELSE [ok |-> FALSE, val |-> PyExc("TypeError")]
      [] type_ = "bool" ->
            IF kwargs = ""
            THEN [ok |-> TRUE, val |-> PyBool(IF Truthy(result) THEN 1 ELSE 0)]
            ELSE [ok |-> FALSE, val |-> PyExc("TypeError")]
      [] type_ = "decode" ->
            IF kwargs = "" THEN [ok |-> FALSE, val |-> PyExc("TypeError")]
            ELSE decode(result, kwargs)

Converted(c) == [kind |-> IF c.ok THEN "return" ELSE "raise",
                 val |-> c.val, conv |-> 1]

\* wait_convert that converts before it looks for the sentinel
WaitConvertFirst(f, type_, kwargs) ==
    LET result == Await(f)
    IN  IF ~result.ok THEN Raise(result.val)
        ELSE LET c == Converted(PyApply(type_, result.val, kwargs))
             IN  IF PyIn(result.val, QUEUED)
                 THEN [kind |-> "return", val |-> result.val, conv |-> 1]
                 ELSE c

\* wait_convert(fut, type_, **kwargs), resumed with fut done
wait_convert(f, type_, kwargs) ==
    LET result == Await(f)
    IN  IF ~result.ok THEN Raise(result.val)
        ELSE IF PyIn(result.val, QUEUED) THEN Return(result.val)
        ELSE Converted(PyApply(type_, result.val, kwargs))

\* iter(res): the elements res yields, or TypeError when it is not iterable
Iter(res) ==
    CASE res.k \in {"list", "tuple"} -> [ok |-> TRUE, xs |-> res.items]
      [] res.k \in {"bytes", "bytearray"} ->
            [ok |-> TRUE, xs |-> [i \in 1..Len(res.b) |-> PyInt(res.b[i])]]
      [] res.k = "str" ->
            [ok |-> TRUE, xs |-> [i \in 1..Len(res.b) |-> PyStr(<<res.b[i]>>)]]
      [] res.k = "dict" ->
            [ok |-> TRUE, xs |-> [i \in 1..Len(res.items) |-> res.items[i].items[1]]]
      [] OTHER -> [ok |-> FALSE, xs |-> <<>>]

\* zip(it, it) over one iterator: each pair takes two elements in turn, and
\* zip ends when the iterator cannot give the next element, whichever of the
\* pair it is
ZipSelf(xs) ==
    [i \in 1..(Len(xs) \div 2) |-> PyTuple(<<xs[2 * i - 1], xs[2 * i]>>)]

Hashable(v) == v.k \notin {"list", "dict", "bytearray"}

RECURSIVE DictOf(_, _)
\* dict(pairs): a key that is there keeps its place and takes the new value
DictOf(pairs, acc) ==
    IF pairs = <<>> THEN [ok |-> TRUE, val |-> PyDict(acc)]
    ELSE LET key == Head(pairs).items[1]
             val == Head(pairs).items[2]
         IN  IF ~Hashable(key)
             THEN [ok |-> FALSE, val |-> PyExc("TypeError")]
             ELSE IF \E i \in 1..Len(acc) : PyEq(acc[i].items[1], key)
             THEN DictOf(Tail(pairs),
                         [i \in 1..Len(acc) |->
                            IF PyEq(acc[i].items[1], key)
                            THEN PyTuple(<<acc[i].items[1], val>>)
                            ELSE acc[i]])
             ELSE DictOf(Tail(pairs), Append(acc, Head(pairs)))

\* wait_make_dict(fut), resumed with fut done
wait_make_dict(f) ==
    LET res == Await(f)
    IN  IF ~res.ok THEN Raise(res.val)
        ELSE IF PyIn(res.val, QUEUED) THEN Return(res.val)
        ELSE LET it == Iter(res.val)
             IN  IF ~it.ok THEN Raise(PyExc("TypeError"))
                 ELSE LET d == DictOf(ZipSelf(it.xs), <<>>)
                      IN  IF d.ok THEN Return(d.val) ELSE Raise(d.val)

\* the replies the transport settles the waiter future with
FutureResults ==
    { PyBytes(Ascii("QUEUED")), PyStr(Ascii("QUEUED")),
      PyBytes(Ascii("OK")), PyStr(Ascii("OK")), PyBytes(Ascii("ok")),
      PyByteArray(Ascii("OK")),
      PyBytes(Ascii("PONG")), PyBytes(Ascii("42")), PyBytes(Ascii("1x")),
      PyBytes(<<195, 169>>), PyBytes(<<255>>), PyInt(1), PyNone,
      PyList(<<>>),
      PyList(<<PyBytes(Ascii("x"))>>),
      PyList(<<PyBytes(Ascii("x")), PyBytes(Ascii("1")),
               PyBytes(Ascii("key")), PyBytes(Ascii("42"))>>),
      PyList(<<PyBytes(Ascii("x")), PyBytes(Ascii("1")),
               PyBytes(Ascii("key"))>>),
      PyList(<<PyBytes(Ascii("x")), PyBytes(Ascii("1")),
               PyBytes(Ascii("x")), PyBytes(Ascii("42"))>>) }

\* the errors the transport settles the waiter future with
FutureErrors == { PyExc("ReplyError"), PyExc("ConnectionClosedError") }

\* the adapters the callers wrap the waiter future in
Adapters ==
    { [name |-> "wait_ok", type_ |-> "", kwargs |-> ""],
      [name |-> "wait_make_dict", type_ |-> "", kwargs |-> ""],
      [name |-> "wait_convert", type_ |-> "int", kwargs |-> ""],
      [name |-> "wait_convert", type_ |-> "bool", kwargs |-> ""],
      [name |-> "wait_convert", type_ |-> "int", kwargs |-> "utf-8"],
      [name |-> "wait_convert", type_ |-> "decode", kwargs |-> "utf-8"],
      [name |-> "wait_convert", type_ |-> "decode", kwargs |-> "latin-1"] }

NoAdapter == [name |-> "", type_ |-> "", kwargs |-> "", pc |-> "none"]

Called(op, f, r) == [op |-> op, was |-> f.state, raised |-> r]

\* the transport calls _set_result(fut, result)
SetResult ==
    /\ Len(setCalls) < MaxSets
    /\ \E result \in FutureResults :
          LET r == _set_result(fut, result)
          IN  /\ fut' = r.fut
              /\ setCalls' = Append(setCalls, Called("_set_result", fut, r.raised))
              /\ lastArg' = result
    /\ UNCHANGED <<adapter, adRes, convCalls, encVars, scanVars, dictVars, decVars>>

\* the transport calls _set_exception(fut, exception)
SetException ==
    /\ Len(setCalls) < MaxSets
    /\ \E exception \in FutureErrors :
          LET r == _set_exception(fut, exception)
          IN  /\ fut' = r.fut
              /\ setCalls' = Append(setCalls, Called("_set_exception", fut, r.raised))
              /\ lastArg' = exception
    /\ UNCHANGED <<adapter, adRes, convCalls, encVars, scanVars, dictVars, decVars>>

\* the issuing call site cancels the future: fut.cancel()
Cancel ==
    /\ Len(setCalls) < MaxSets
    /\ fut' = cancel(fut)
    /\ setCalls' = Append(setCalls, Called("cancel", fut, ""))
    /\ lastArg' = PyNone
    /\ UNCHANGED <<adapter, adRes, convCalls, encVars, scanVars, dictVars, decVars>>

\* a caller starts wait_ok(fut), wait_convert(fut, type_, **kwargs) or
\* wait_make_dict(fut), which runs up to `yield from fut`
StartAdapter ==
    /\ adapter.pc = "none"
    /\ \E a \in Adapters :
          adapter' = [name |-> a.name, type_ |-> a.type_,
                      kwargs |-> a.kwargs, pc |-> "await"]
    /\ UNCHANGED <<fut, setCalls, lastArg, adRes, convCalls, encVars, scanVars, dictVars, decVars>>

\* the adapter coroutine resumes once fut is done, and runs to its end
ResumeAdapter ==
    /\ adapter.pc = "await"
    /\ done(fut)
    /\ LET r == CASE adapter.name = "wait_ok" -> wait_ok(fut)
                  [] adapter.name = "wait_convert" ->
                        wait_convert(fut, adapter.type_, adapter.kwargs)
                  [] adapter.name = "wait_make_dict" -> wait_make_dict(fut)
       IN  /\ adRes' = [kind |-> r.kind, val |-> r.val]
           /\ convCalls' = convCalls + r.conv
    /\ adapter' = [adapter EXCEPT !.pc = "done"]
    /\ UNCHANGED <<fut, setCalls, lastArg, encVars, scanVars, dictVars, decVars>>

----------------------------------------------------------------------------
(* Cursor Iterator: _BaseScanIter, _ScanIter, _ScanIterPairs *)

\* the tasks that may advance the iterator
Tasks == {1, 2}

\* the cursors the scan primitive returns: the tokens b'0' and '0', and the
\* integers the scan commands convert the reply's cursor to
ScanCursors ==
    { PyBytes(Ascii("0")), PyStr(Ascii("0")), PyInt(0), PyInt(5) }

\* the pages the scan primitive returns: items for _ScanIter, a flat sequence
\* of keys and values for _ScanIterPairs
ScanPages(v) ==
    IF v = "_ScanIter"
    THEN { <<>>, <<1, 2>>, <<3>> }
    ELSE { <<>>, <<1, 2>>, <<1, 2, 3, 4>>, <<1, 2, 3>> }

\* ret[::2] and ret[1::2]
EvenSlice(s) == [i \in 1..((Len(s) + 1) \div 2) |-> s[2 * i - 1]]
OddSlice(s)  == [i \in 1..(Len(s) \div 2) |-> s[2 * i]]

\* list(zip(a, b)): as many pairs as the shorter of the two has elements
Zip(a, b) ==
    LET m == IF Len(a) < Len(b) THEN Len(a) ELSE Len(b)
    IN  [i \in 1..m |-> <<a[i], b[i]>>]

\* what a page becomes in self._ret
Buffered(v, page) ==
    IF v = "_ScanIter" THEN page ELSE Zip(EvenSlice(page), OddSlice(page))

\* the loop condition without the cursor test
LoopCondBufferOnly(c, r) == r = <<>>

\* the loop condition without the buffer test: fetch while the cursor is set
LoopCondCursorOnly(c, r) == Truthy(c)

\* `while not self._ret and self._cur`
LoopCond(c, r) == r = <<>> /\ Truthy(c)

\* a pop that takes the last element: self._ret.pop()
PopLast(r) ==
    [item |-> r[Len(r)], rest |-> SubSeq(r, 1, Len(r) - 1)]

\* self._ret.pop(0) of a list that is not empty: the item and the list after
Pop(r) == [item |-> Head(r), rest |-> Tail(r)]

\* the end test with the buffer test inverted: `not self._cur and self._ret`
ExhaustedInverted(c, r) == ~Truthy(c) /\ r # <<>>

\* `if not self._cur and not self._ret`
Exhausted(c, r) == ~Truthy(c) /\ r = <<>>

Item(t, x) == [t |-> t, kind |-> "item", val |-> <<x>>, exc |-> ""]
Stop(t)    == [t |-> t, kind |-> "stop", val |-> <<>>,
               exc |-> "StopAsyncIteration"]
Error(t, e) == [t |-> t, kind |-> "raise", val |-> <<>>, exc |-> e]

\* __anext__ that sets the cursor back to b'0' when it signals the end
RunLoopRewind(t, c, r) ==
    IF LoopCond(c, r)
    THEN /\ Len(calls) < MaxScans
         /\ calls' = Append(calls, [t |-> t, cur |-> c])
         /\ pc' = [pc EXCEPT ![t] = "await"]
         /\ cur' = c
         /\ ret' = r
         /\ out' = out
    ELSE /\ calls' = calls
         /\ pc' = [pc EXCEPT ![t] = "idle"]
         /\ IF Exhausted(c, r)
            THEN /\ ret' = r
                 /\ cur' = PyBytes(Ascii("0"))
                 /\ out' = Append(out, Stop(t))
            ELSE IF r = <<>>
            THEN /\ ret' = r
                 /\ cur' = c
                 /\ out' = Append(out, Error(t, "IndexError"))
            ELSE /\ ret' = Pop(r).rest
                 /\ cur' = c
                 /\ out' = Append(out, Item(t, Pop(r).item))

\* __anext__ of task t from the head of its while loop, with _cur = c and
\* _ret = r, up to its next suspension (the scan call) or its end
RunLoop(t, c, r) ==
    IF LoopCond(c, r)
    THEN /\ Len(calls) < MaxScans
         /\ calls' = Append(calls, [t |-> t, cur |-> c])
         /\ pc' = [pc EXCEPT ![t] = "await"]
         /\ cur' = c
         /\ ret' = r
         /\ out' = out
    ELSE /\ calls' = calls
         /\ pc' = [pc EXCEPT ![t] = "idle"]
         /\ cur' = c
         /\ IF Exhausted(c, r)
            THEN /\ ret' = r
                 /\ out' = Append(out, Stop(t))
            ELSE IF r = <<>>
            THEN /\ ret' = r
                 /\ out' = Append(out, Error(t, "IndexError"))
            ELSE /\ ret' = Pop(r).rest
                 /\ out' = Append(out, Item(t, Pop(r).item))

\* the __anext__ calls begun so far
Begun == Len(out) + Cardinality({t \in Tasks : pc[t] = "await"})

\* task t calls __anext__()
Anext(t) ==
    /\ pc[t] = "idle"
    /\ Begun < MaxNext
    /\ RunLoop(t, cur, ret)
    /\ UNCHANGED <<variant, replies, encVars, futVars, dictVars, decVars>>

\* a scan return that stores the page and not the cursor
ScanReturnKeepsCursor(t) ==
    /\ pc[t] = "await"
    /\ \E c \in ScanCursors, page \in ScanPages(variant) :
          /\ replies' = Append(replies,
                [t |-> t, cur |-> c, page |-> page, failed |-> FALSE])
          /\ RunLoop(t, cur, Buffered(variant, page))
    /\ UNCHANGED <<variant, encVars, futVars, dictVars, decVars>>

\* the scan call of task t returns (c, page): the assignment of line 118
\* (lines 130-131 in _ScanIterPairs), then the loop again
ScanReturn(t) ==
    /\ pc[t] = "await"
    /\ \E c \in ScanCursors, page \in ScanPages(variant) :
          /\ replies' = Append(replies,
                [t |-> t, cur |-> c, page |-> page, failed |-> FALSE])
          /\ RunLoop(t, c, Buffered(variant, page))
    /\ UNCHANGED <<variant, encVars, futVars, dictVars, decVars>>

\* a failure that also sets the iterator back to its initial cursor
ScanFailResetsCursor(t) ==
    /\ pc[t] = "await"
    /\ replies' = Append(replies,
          [t |-> t, cur |-> PyNone, page |-> <<>>, failed |-> TRUE])
    /\ out' = Append(out, Error(t, "ScanError"))
    /\ pc' = [pc EXCEPT ![t] = "idle"]
    /\ cur' = PyBytes(Ascii("0"))
    /\ UNCHANGED <<variant, ret, calls, encVars, futVars, dictVars, decVars>>

\* the scan call of task t raises: the exception leaves __anext__
ScanFail(t) ==
    /\ pc[t] = "await"
    /\ replies' = Append(replies,
          [t |-> t, cur |-> PyNone, page |-> <<>>, failed |-> TRUE])
    /\ out' = Append(out, Error(t, "ScanError"))
    /\ pc' = [pc EXCEPT ![t] = "idle"]
    /\ UNCHANGED <<variant, cur, ret, calls, encVars, futVars, dictVars, decVars>>

----------------------------------------------------------------------------
(* Key-Coercing Mapping: coerced_keys_dict                                 *)

\* the place of key among the items of a dict, 0 when it is no key of it
DictFind(dictItems, key) ==
    IF \E i \in 1..Len(dictItems) : PyEq(dictItems[i].items[1], key)
    THEN CHOOSE i \in 1..Len(dictItems) : PyEq(dictItems[i].items[1], key)
    ELSE 0

\* dict.__getitem__(self, key)
dict_getitem(dictItems, key) ==
    IF ~Hashable(key) THEN Raise(PyExc("TypeError"))
    ELSE IF DictFind(dictItems, key) = 0 THEN Raise(PyExc("KeyError"))
    ELSE Return(dictItems[DictFind(dictItems, key)].items[2])

\* dict.__contains__(self, key)
dict_contains(dictItems, key) ==
    IF ~Hashable(key) THEN Raise(PyExc("TypeError"))
    ELSE Return(PyBool(IF DictFind(dictItems, key) = 0 THEN 0 ELSE 1))

\* dict.__setitem__(self, key, value), which coerced_keys_dict inherits: the
\* items after it, the same items when key is unhashable
dict_setitem(dictItems, key, value) ==
    IF ~Hashable(key) THEN dictItems
    ELSE IF DictFind(dictItems, key) = 0
    THEN Append(dictItems, PyTuple(<<key, value>>))
    ELSE [dictItems EXCEPT ![DictFind(dictItems, key)] =
             PyTuple(<<dictItems[DictFind(dictItems, key)].items[1], value>>)]

\* `if not isinstance(other, bytes): other = _converters[type(other)](other)`
\* the key the lookup is made with; the bytearray converter returns its
\* argument as it is
CoerceKey(other) ==
    IF other.k = "bytes" THEN [ok |-> TRUE, key |-> other, exc |-> ""]
    ELSE LET barg == _converters(other)
         IN  IF ~barg.ok THEN [ok |-> FALSE, key |-> PyNone, exc |-> barg.exc]
             ELSE [ok |-> TRUE, exc |-> "",
                   key |-> IF other.k = "bytearray" THEN other
                           ELSE PyBytes(barg.b)]

\* coerced_keys_dict.__getitem__(self, other)
__getitem__(dictItems, other) ==
    IF ~CoerceKey(other).ok THEN Raise(PyExc(CoerceKey(other).exc))
    ELSE dict_getitem(dictItems, CoerceKey(other).key)

\* coerced_keys_dict.__contains__(self, other)
__contains__(dictItems, other) ==
    IF ~CoerceKey(other).ok THEN Raise(PyExc(CoerceKey(other).exc))
    ELSE dict_contains(dictItems, CoerceKey(other).key)

\* the keys the mapping is used with: the four kinds, bytearray, and kinds
\* that are no key of _converters
KeyValues ==
    { PyBytes(Ascii("x")), PyBytes(Ascii("1")), PyBytes(<<51, 46, 49>>),
      PyStr(Ascii("x")), PyInt(1), PyFloat(31),
      PyByteArray(Ascii("x")), PyStr(<<120, 55296>>),
      PyNone, PyList(<<PyInt(1)>>) }

\* the values stored
DictValues == {PyInt(7), PyInt(8)}

NoOp == [op |-> "none", key |-> PyNone, res |-> Return(PyNone)]

\* m[key] = value
SetItem ==
    /\ \E key \in KeyValues, value \in DictValues :
          /\ Len(dict_setitem(store, key, value)) <= MaxItems
          /\ store' = dict_setitem(store, key, value)
          /\ inserted' = IF Hashable(key) THEN inserted \cup {key} ELSE inserted
          /\ dictOp' = [op |-> "setitem", key |-> key,
                        res |-> IF Hashable(key) THEN Return(PyNone)
                                ELSE Raise(PyExc("TypeError"))]
    /\ UNCHANGED <<encVars, futVars, scanVars, decVars>>

\* a lookup that also stores the value under the key it was given
GetItemKeepsAlias ==
    /\ \E other \in KeyValues :
          /\ dictOp' = [op |-> "getitem", key |-> other,
                        res |-> __getitem__(store, other)]
          /\ store' = IF __getitem__(store, other).kind = "return"
                         /\ Hashable(other)
                         /\ Len(store) < MaxItems
                      THEN dict_setitem(store, other,
                                        __getitem__(store, other).val)
                      ELSE store
    /\ UNCHANGED <<inserted, encVars, futVars, scanVars, decVars>>

\* m[other]
GetItem ==
    /\ \E other \in KeyValues :
          dictOp' = [op |-> "getitem", key |-> other,
                     res |-> __getitem__(store, other)]
    /\ UNCHANGED <<store, inserted, encVars, futVars, scanVars, decVars>>

\* other in m
Contains ==
    /\ \E other \in KeyValues :
          dictOp' = [op |-> "contains", key |-> other,
                     res |-> __contains__(store, other)]
    /\ UNCHANGED <<store, inserted, encVars, futVars, scanVars, decVars>>

----------------------------------------------------------------------------
(* Reply Decoder: the calls of decode                                      *)

\* the leaves of a reply: blobs (ASCII, two-byte UTF-8, not UTF-8), an
\* integer and None
ReplyLeaves ==
    { PyBytes(Ascii("OK")), PyBytes(<<195, 169>>), PyBytes(<<255>>),
      PyInt(42), PyNone }

RECURSIVE Replies(_)
\* the replies nested at most depth deep: a leaf, or a list of at most three
\* leaves, or a list of one or two replies of which one may be a list
Replies(depth) ==
    IF depth = 0 THEN ReplyLeaves
    ELSE LET inner == Replies(depth - 1)
         IN  ReplyLeaves
             \cup {PyList(xs) : xs \in SeqsUpTo(ReplyLeaves, 3)}
             \cup {PyList(<<x>>) : x \in inner}
             \cup {PyList(<<x, y>>) : x \in inner, y \in ReplyLeaves}
             \cup {PyList(<<y, x>>) : x \in inner, y \in ReplyLeaves}

NotDecoded == [ok |-> FALSE, val |-> PyExc("not called")]

\* a call decode(obj, encoding)
Decode ==
    /\ decRes = NotDecoded
    /\ \E obj \in Replies(MaxDepth), encoding \in {"utf-8", "latin-1"} :
          /\ decObj' = obj
          /\ decEnc' = encoding
          /\ decRes' = decode(obj, encoding)
    /\ UNCHANGED <<encVars, futVars, scanVars, dictVars>>

----------------------------------------------------------------------------
(* The specifications *)

Init ==
    /\ encArgs = <<>>
    /\ encRes = NoResult
    /\ fut = PendingFuture
    /\ setCalls = <<>>
    /\ lastArg = PyNone
    /\ adapter = NoAdapter
    /\ adRes = [kind |-> "none", val |-> PyNone]
    /\ convCalls = 0
    /\ variant \in {"_ScanIter", "_ScanIterPairs"}
    /\ cur = PyBytes(Ascii("0"))
    /\ ret = <<>>
    /\ pc = [t \in Tasks |-> "idle"]
    /\ calls = <<>>
    /\ replies = <<>>
    /\ out = <<>>
    /\ lenCache = <<>>
    /\ store = <<>>
    /\ inserted = {}
    /\ dictOp = NoOp
    /\ decObj = PyNone
    /\ decEnc = ""
    /\ decRes = NotDecoded

\* the command serializer
NextEnc == EncodeCommand \/ EncodeCommandMany
SpecEnc == Init /\ [][NextEnc]_vars

\* the command serializer called with ever longer arguments
NextCache == EncodeSized
SpecCache == Init /\ [][NextCache]_vars

\* one coerced_keys_dict
NextDict == SetItem \/ GetItem \/ Contains
SpecDict == Init /\ [][NextDict]_vars

\* one call of decode
NextDec == Decode
SpecDec == Init /\ [][NextDec]_vars

\* one waiter future, the transport that settles it, the call site that may
\* cancel it, and the adapter that awaits it
NextFut == SetResult \/ SetException \/ Cancel \/ StartAdapter \/ ResumeAdapter
SpecFut == Init /\ [][NextFut]_vars

\* one iterator advanced by a single consumer
NextScan == Anext(1) \/ ScanReturn(1) \/ ScanFail(1)
SpecScan == Init /\ [][NextScan]_vars

\* task t calls __anext__() on an iterator it shares with the other task
AnextShared(t) == Begun < MaxShared /\ Anext(t)

\* one iterator advanced by two tasks, which interleave at the scan calls
NextScan2 == \E t \in Tasks : AnextShared(t) \/ ScanReturn(t) \/ ScanFail(t)
SpecScan2 == Init /\ [][NextScan2]_vars

----------------------------------------------------------------------------
(* The claims about the cursor iterator *)

Last(s) == s[Len(s)]

\* the reply of scan call i carries a cursor for which Zero holds
ZeroReply(i, Zero(_)) == ~replies[i].failed /\ Zero(replies[i].cur)

\* no scan call follows a reply whose cursor satisfies Zero
NoScanAfter(Zero(_)) ==
    \A i \in 1..Len(replies) : ZeroReply(i, Zero) => Len(calls) <= i

\* the pages are over: the last reply carried a Zero cursor and every item
\* it brought has been yielded
PagesOver(Zero(_)) ==
    /\ replies # <<>>
    /\ ZeroReply(Len(replies), Zero)
    /\ ret = <<>>
    /\ pc[1] = "idle"

\* in this step an __anext__ call ends, or suspends in a scan call
AnextActs == out' # out \/ calls' # calls

\* after the last page, an __anext__ call only signals the end
EndsAfter(Zero(_)) ==
    /\ NoScanAfter(Zero)'
    /\ PagesOver(Zero) /\ AnextActs =>
          /\ out' = Append(out, Stop(1))
          /\ calls' = calls
          /\ replies' = replies

\* the zero-token as the specification has it: b'0' or '0'
IsZeroToken(c) == c \in {PyBytes(Ascii("0")), PyStr(Ascii("0"))}

\* the cursor the scan commands give when the scan is complete: int 0
IsIntZero(c) == c = PyInt(0)

RECURSIVE ConcatPages(_)
\* the pages the scan calls returned, one after the other
ConcatPages(rs) ==
    IF rs = <<>> THEN <<>>
    ELSE (IF Head(rs).failed THEN <<>> ELSE Head(rs).page)
            \o ConcatPages(Tail(rs))

RECURSIVE Yielded(_)
\* the items the __anext__ calls returned, in order
Yielded(os) ==
    IF os = <<>> THEN <<>>
    ELSE (IF Head(os).kind = "item" THEN Head(os).val ELSE <<>>)
            \o Yielded(Tail(os))

\* C2: with a single consumer of a _ScanIter, the items yielded so far
\* followed by the items still buffered are the pages returned so far, one
\* after the other, and the end is never signalled over a buffer that holds
\* items.
C2_YieldsPagesInOrder ==
    variant = "_ScanIter" =>
        /\ Yielded(out) \o ret = ConcatPages(replies)
        /\ out # <<>> /\ Last(out).kind = "stop" => ret = <<>>

\* an empty page, then a page of two items with the final cursor: the two
\* items were yielded in order, then the end
C2_Witness ==
    /\ variant = "_ScanIter"
    /\ Len(replies) = 3
    /\ replies[1].page = <<>>
    /\ replies[2].page = <<3>>
    /\ replies[3].page = <<1, 2>> /\ replies[3].cur = PyInt(0)
    /\ out = <<Item(1, 3), Item(1, 1), Item(1, 2), Stop(1)>>

\* C3: in _ScanIterPairs, the __anext__ that receives a page of odd length
\* raises (Malformed Reply); it neither yields nor goes on to scan.
C3_OddPageRaises ==
    /\ variant = "_ScanIterPairs"
    /\ replies # <<>>
    /\ ~Last(replies).failed
    /\ Len(Last(replies).page) % 2 = 1
    => /\ out # <<>>
       /\ Last(out).kind = "raise"
       /\ Len(calls) = Len(replies)

----------------------------------------------------------------------------
(* The claims about the adapters and the settlement helpers *)

\* the adapter `name` has run to its end on a future settled to a value
Adapted(name) ==
    /\ adapter.name = name
    /\ adapter.pc = "done"
    /\ fut.outcome = "result"

\* v is the literal `word`, in binary or text form
IsLiteral(v, word) ==
    v.k \in {"bytes", "bytearray", "str"} /\ v.b = Ascii(word)

\* C4: wait_make_dict fails (Malformed Reply) whenever the future settles to
\* a sequence of odd length that is not the QUEUED sentinel; it returns no
\* mapping then.
C4_OddReplyRaises ==
    /\ Adapted("wait_make_dict")
    /\ fut.value.k = "list"
    /\ Len(fut.value.items) % 2 = 1
    => adRes.kind = "raise"

\* C5: once the future is settled or cancelled, no _set_result,
\* _set_exception or cancel call changes its outcome.
C5_SettledOnce == [][done(fut) => fut' = fut]_vars

\* a future that was cancelled, then given a result and an exception
C5_Witness ==
    /\ Len(setCalls) = 3
    /\ setCalls[1].op = "cancel"
    /\ setCalls[2].op = "_set_result"
    /\ setCalls[3].op = "_set_exception"
    /\ fut.state = "CANCELLED"

\* C6: a _set_result or _set_exception call on a pending future settles it
\* with the value or error given and returns; on a cancelled future it
\* returns and leaves the future cancelled; on a future that is finished it
\* raises AssertionError.
C6_ThreeCases ==
    setCalls # <<>> /\ Last(setCalls).op # "cancel" =>
        LET c == Last(setCalls)
        IN  /\ c.was = "PENDING" =>
                /\ c.raised = ""
                /\ fut.state = "FINISHED"
                /\ fut.value = lastArg
                /\ fut.outcome = IF c.op = "_set_result" THEN "result"
                                 ELSE "exception"
            /\ c.was = "CANCELLED" =>
                /\ c.raised = ""
                /\ fut = cancel(PendingFuture)
            /\ c.was = "FINISHED" =>
                /\ c.raised = "AssertionError"
                /\ fut.state = "FINISHED"

\* a result delivered to a future that already holds one
C6_Witness ==
    /\ Len(setCalls) = 2
    /\ setCalls[1].op = "_set_exception" /\ setCalls[1].was = "PENDING"
    /\ setCalls[2].op = "_set_result" /\ setCalls[2].was = "FINISHED"
    /\ setCalls[2].raised = "AssertionError"
    /\ fut.outcome = "exception"

\* C7: wait_ok returns the settled value itself when it is QUEUED (binary or
\* text), and otherwise the boolean that is true exactly when the value is
\* OK (binary or text).
C7_WaitOk ==
    Adapted("wait_ok") =>
        /\ adRes.kind = "return"
        /\ adRes.val = IF IsLiteral(fut.value, "QUEUED") THEN fut.value
                       ELSE IF IsLiteral(fut.value, "OK") THEN PyBool(1)
                       ELSE PyBool(0)

\* PONG gave false
C7_Witness ==
    /\ Adapted("wait_ok")
    /\ fut.value = PyBytes(Ascii("PONG"))
    /\ adRes = [kind |-> "return", val |-> PyBool(0)]

\* C8: wait_convert returns QUEUED (binary or text) unchanged without
\* calling type_; for any other value it calls type_(value, **kwargs) once
\* and returns what that returns or raises what that raises.
C8_WaitConvert ==
    Adapted("wait_convert") =>
        IF IsLiteral(fut.value, "QUEUED")
        THEN /\ adRes = [kind |-> "return", val |-> fut.value]
             /\ convCalls = 0
        ELSE LET c == PyApply(adapter.type_, fut.value, adapter.kwargs)
             IN  /\ convCalls = 1
                 /\ adRes.kind = IF c.ok THEN "return" ELSE "raise"
                 /\ adRes.val = c.val

\* int(b'1x') raised ValueError, which left wait_convert as it was
C8_Witness ==
    /\ Adapted("wait_convert")
    /\ adapter.type_ = "int" /\ adapter.kwargs = ""
    /\ fut.value = PyBytes(Ascii("1x"))
    /\ adRes = [kind |-> "raise", val |-> PyExc("ValueError")]
    /\ convCalls = 1

----------------------------------------------------------------------------
(* The claims about the command serializer *)

\* the kinds the serializer takes: binary, text, integer, floating-point
SupportedKind(v) == v.k \in {"bytes", "bytearray", "str", "int", "float"}

\* text that UTF-8 can encode: no lone surrogate in it
Encodable(v) == v.k = "str" => \A i \in 1..Len(v.b) : ~IsSurrogate(v.b[i])

\* the Value Encoder's bytes of each argument
Encodings(args) == [i \in 1..Len(args) |-> _converters(args[i]).b]

RECURSIVE Bulks(_)
\* $<len>\r\n<bytes>\r\n for each of the byte strings, in order
Bulks(bs) ==
    IF bs = <<>> THEN <<>>
    ELSE <<36>> \o Digits(Len(Head(bs))) \o <<13, 10>> \o Head(bs)
            \o <<13, 10>> \o Bulks(Tail(bs))

\* the buffer is *<N>\r\n and a bulk string for each argument, and the
\* reference parser reads the arguments' encodings back from it
WellFormed(args, res) ==
    /\ res.ok
    /\ res.buf = <<42>> \o Digits(Len(args)) \o <<13, 10>>
                    \o Bulks(Encodings(args))
    /\ ParseRESP(res.buf) = [ok |-> TRUE, args |-> Encodings(args)]

EncodeCalled == encRes # NoResult

\* C9 as stated: for every argument list of the supported kinds the buffer
\* is *<N>\r\n then $<len>\r\n<bytes>\r\n for each argument, and it parses
\* back to the arguments' encodings.
C9_AllSupportedEncode ==
    /\ EncodeCalled
    /\ \A i \in 1..Len(encArgs) : SupportedKind(encArgs[i])
    => WellFormed(encArgs, encRes)

\* C9: for every argument list of the supported kinds whose text arguments
\* UTF-8 can encode, the buffer is *<N>\r\n then $<len>\r\n<bytes>\r\n for
\* each argument, <len> the byte length, and it parses back to the
\* arguments' encodings.
C9_EncodableEncode ==
    /\ EncodeCalled
    /\ \A i \in 1..Len(encArgs) :
          SupportedKind(encArgs[i]) /\ Encodable(encArgs[i])
    => WellFormed(encArgs, encRes)

\* a text of one character and two bytes, and a text of two characters and
\* four bytes
C9_Witness ==
    /\ encArgs = <<PyStr(<<233>>), PyStr(<<8364, 120>>)>>
    /\ encRes.ok
    /\ encRes.buf = <<42, 50, 13, 10, 36, 50, 13, 10, 195, 169, 13, 10,
                      36, 52, 13, 10, 226, 130, 172, 120, 13, 10>>

\* the arguments encode_command turns down
Offending(args, Accepted(_)) == {i \in 1..Len(args) : ~Accepted(args[i])}

\* the call is accepted exactly when every argument is Accepted; otherwise
\* it raises TypeError naming the first argument that is not, with no buffer
AcceptsExactly(Accepted(_)) ==
    EncodeCalled =>
        LET bad == Offending(encArgs, Accepted)
        IN  /\ encRes.ok <=> bad = {}
            /\ bad # {} =>
                /\ encRes.exc = "TypeError"
                /\ encRes.buf = <<>>
                /\ \A i \in bad :
                      (\A j \in bad : i <= j) => encRes.arg = encArgs[i]

EncodableKind(v) == SupportedKind(v) /\ Encodable(v)

----------------------------------------------------------------------------
(* The claims about the cursor iterator's behaviour *)

\* the buffer holds the last items of the page the last scan call returned
SuffixOfLastPage ==
    \E i \in 1..Len(replies) :
        /\ ~replies[i].failed
        /\ \A j \in (i + 1)..Len(replies) : replies[j].failed
        /\ LET page == Buffered(variant, replies[i].page)
           IN  /\ Len(ret) <= Len(page)
               /\ ret = SubSeq(page, Len(page) - Len(ret) + 1, Len(page))

\* C16: with a single consumer, a scan call is in flight only over an empty
\* buffer, and what the buffer holds is the rest of one page: the last one
\* returned.
C16_FetchOnlyWhenDrained ==
    /\ pc[1] = "await" => ret = <<>>
    /\ ret # <<>> => SuffixOfLastPage

\* a second page is being fetched after both items of the first were yielded
C16_Witness ==
    /\ pc[1] = "await"
    /\ Len(calls) = 2
    /\ Len(replies) = 1
    /\ Len(Yielded(out)) = Len(Buffered(variant, replies[1].page))
    /\ Len(Yielded(out)) = 2

\* an __anext__ call has signalled the end
Ended == \E i \in 1..Len(out) : out[i].kind = "stop"

\* C17: with a single consumer, once an __anext__ call has signalled the end
\* every later call signals it again: no scan call is made and the cursor
\* and the buffer stay as they are.
C17_ExhaustionIsPermanent ==
    [][Ended =>
          /\ cur' = cur
          /\ ret' = ret
          /\ calls' = calls
          /\ replies' = replies
          /\ out' # out => out' = Append(out, Stop(1))]_vars

\* the end was signalled three times in a row after one scan call
C17_Witness ==
    /\ Len(out) >= 3
    /\ \A i \in (Len(out) - 2)..Len(out) : out[i].kind = "stop"
    /\ Len(calls) = 1

\* the cursor the iterator holds when scan call i is made: the one the last
\* call before it that returned gave, b'0' when none has returned
CursorBefore(i) ==
    LET returned == {j \in 1..(i - 1) : j <= Len(replies) /\ ~replies[j].failed}
    IN  IF returned = {} THEN PyBytes(Ascii("0"))
        ELSE replies[CHOOSE j \in returned : \A h \in returned : h <= j].cur

\* C18: with a single consumer, the first scan call passes b'0', every later
\* one passes the cursor the scan call before it returned (the cursor that
\* call was passed, if it raised), and the end is never signalled before a
\* scan call was made.
C18_CursorChaining ==
    /\ \A i \in 1..Len(calls) : calls[i].cur = CursorBefore(i)
    /\ Ended => calls # <<>>

\* three calls: b'0', then 5, then '0', each the cursor returned before
C18_Witness ==
    /\ Len(calls) = 3
    /\ calls[1].cur = PyBytes(Ascii("0"))
    /\ replies[1].cur = PyInt(5) /\ calls[2].cur = PyInt(5)
    /\ ~replies[2].failed
    /\ replies[2].cur = PyStr(Ascii("0")) /\ calls[3].cur = PyStr(Ascii("0"))

\* in this step the scan call in flight raises
ScanRaises == replies' # replies /\ Last(replies').failed

\* C19: when a scan call raises, the error leaves __anext__ at once, no scan
\* call is made in its place, and the cursor and the buffer are what they
\* were; the next scan call passes the same cursor again, and no item of a
\* _ScanIter is lost or yielded twice.
C19_ScanFailureLeavesState ==
    [][/\ ScanRaises =>
            /\ out' = Append(out, Error(1, "ScanError"))
            /\ pc'[1] = "idle"
            /\ calls' = calls
            /\ cur' = cur
            /\ ret' = ret
       /\ (/\ calls' # calls
           /\ replies' = replies
           /\ replies # <<>>
           /\ Last(replies).failed) =>
            Last(calls').cur = Last(calls).cur
       /\ variant = "_ScanIter" =>
            Yielded(out') \o ret' = ConcatPages(replies')]_vars

\* a scan call with cursor 5 raised, the next __anext__ called scan with 5
\* again, and the items came out once each
C19_Witness ==
    /\ variant = "_ScanIter"
    /\ Len(calls) = 3 /\ Len(replies) = 3
    /\ replies[1].cur = PyInt(5) /\ replies[1].page = <<3>>
    /\ replies[2].failed
    /\ calls[2].cur = PyInt(5) /\ calls[3].cur = PyInt(5)
    /\ replies[3].page = <<1, 2>>
    /\ Yielded(out) = <<3, 1>>
    /\ ret = <<2>>

\* the buffer an ending __anext__ call finds: the one a scan return has just
\* stored, or the one that was there when the call began
BufferFound ==
    IF replies' # replies /\ ~Last(replies').failed
    THEN Buffered(variant, Last(replies').page)
    ELSE ret

\* C20: with two tasks advancing one iterator, interleaved at the scan
\* calls, no __anext__ call removes an item from an empty buffer: a call that
\* returns an item returns the first one of the buffer it finds and leaves
\* the rest, and no call raises IndexError.
C20_NeverPopsEmpty ==
    [][out' # out =>
          /\ Last(out').exc # "IndexError"
          /\ Last(out').kind = "item" =>
                /\ BufferFound # <<>>
                /\ Last(out').val = <<Head(BufferFound)>>
                /\ ret' = Tail(BufferFound)]_vars

\* both tasks were in a scan call at once; the first return ended the scan
\* with an empty page, the second brought a page and its task got an item
C20_Witness ==
    /\ Len(calls) = 2 /\ calls[1].t # calls[2].t
    /\ Len(replies) = 2
    /\ replies[1].t = calls[2].t
    /\ replies[1].cur = PyInt(0) /\ replies[1].page = <<>>
    /\ replies[2].page # <<>> /\ ~replies[2].failed
    /\ Len(out) = 2
    /\ out[1].kind = "stop" /\ out[2].kind = "item"

----------------------------------------------------------------------------
(* The claims about the key-coercing mapping *)

\* the last operation was a lookup m[key] or a membership test key in m
ReadOp == dictOp.op \in {"getitem", "contains"}

\* the places of the mapping where the blob bs is the stored key
StoredUnder(bs) == {i \in 1..Len(store) : store[i].items[1] = PyBytes(bs)}

\* what the underlying lookup with the blob bs gives: the value, or KeyError
LookupOutcome(bs) ==
    IF StoredUnder(bs) = {} THEN Raise(PyExc("KeyError"))
    ELSE Return(store[CHOOSE i \in StoredUnder(bs) : TRUE].items[2])

\* C11: for every key of a supported kind (bytes, bytearray, str, int,
\* float), m[key] gives what the lookup with the encoder's blob for the key
\* gives, the value or KeyError, and `key in m` is True exactly when that
\* blob is a stored key.
C11_ReadsByEncoding ==
    ReadOp /\ SupportedKind(dictOp.key) =>
        /\ _converters(dictOp.key).ok
        /\ dictOp.op = "getitem" =>
              dictOp.res = LookupOutcome(_converters(dictOp.key).b)
        /\ dictOp.op = "contains" =>
              dictOp.res =
                 Return(PyBool(IF StoredUnder(_converters(dictOp.key).b) = {}
                               THEN 0 ELSE 1))

\* C12: a lookup or a membership test with a key of an unsupported kind
\* raises the exception encode_command raises for that value as an argument
\* (TypeError), which is not what the lookup of an absent key raises.
C12_UnsupportedKeyRaisesTypeError ==
    ReadOp /\ ~SupportedKind(dictOp.key) =>
        /\ dictOp.res = Raise(PyExc(encode_command(<<dictOp.key>>).exc))
        /\ dictOp.res # LookupOutcome(<<0>>)

\* the keys the mapping holds
StoredKeys == {store[i].items[1] : i \in 1..Len(store)}

\* C13 as stated: every stored key is bytes, whatever was inserted.
C13_StoredKeysBinary == \A key \in StoredKeys : key.k = "bytes"

\* C13: the stored keys are keys __setitem__ was given, as it was given
\* them: lookups and membership tests store nothing. So every stored key is
\* bytes when every insertion was made with a bytes key.
C13_ReadsStoreNothing ==
    /\ StoredKeys \subseteq inserted
    /\ (\A key \in inserted : key.k = "bytes") => C13_StoredKeysBinary

\* two bytes keys were inserted and the value of b'x' was read with 'x'
C13_Witness ==
    /\ Len(store) = 2
    /\ \A key \in inserted : key.k = "bytes"
    /\ dictOp.op = "getitem"
    /\ dictOp.key = PyStr(Ascii("x"))
    /\ dictOp.res.kind = "return"

----------------------------------------------------------------------------
(* The claim about the cache of _bytes_len *)

\* C14: after any calls of encode_command the lru_cache of _bytes_len holds
\* at most maxsize = 1024 keys, each once.
C14_CacheBounded ==
    /\ Len(lenCache) <= maxsize
    /\ Cardinality({lenCache[i] : i \in 1..Len(lenCache)}) = Len(lenCache)

\* the call with an argument of 1024 bytes found the cache full and the key
\* 0, the oldest used, made room for 1024
C14_Witness ==
    /\ EncodeCalled
    /\ Len(encArgs[1].b) = maxsize
    /\ Len(lenCache) = maxsize
    /\ lenCache[Len(lenCache)] = maxsize
    /\ \A i \in 1..Len(lenCache) : lenCache[i] # 0

----------------------------------------------------------------------------
(* The claim about decode *)

DecodeCalled == decRes # NotDecoded

\* text is the text of the blob bs in the encoding: encoding it gives bs
IsTextOf(text, bs, encoding) ==
    IF encoding = "utf-8"
    THEN StrEncode(text).ok /\ StrEncode(text).b = bs
    ELSE text = bs /\ \A i \in 1..Len(text) : text[i] <= 255

RECURSIVE DecodedFrom(_, _, _)
\* res is obj with the same lists, each blob replaced by its text and every
\* other leaf as it was
DecodedFrom(obj, res, encoding) ==
    CASE obj.k = "bytes" -> res.k = "str" /\ IsTextOf(res.b, obj.b, encoding)
      [] obj.k = "list"  ->
            /\ res.k = "list"
            /\ Len(res.items) = Len(obj.items)
            /\ \A i \in 1..Len(obj.items) :
                  DecodedFrom(obj.items[i], res.items[i], encoding)
      [] OTHER           -> res = obj

RECURSIVE Decodable(_, _)
\* every blob in obj is the encoding of some text
Decodable(obj, encoding) ==
    CASE obj.k = "bytes" -> BytesDecode(obj.b, encoding).ok
      [] obj.k = "list"  ->
            \A i \in 1..Len(obj.items) : Decodable(obj.items[i], encoding)
      [] OTHER           -> TRUE

\* C15 as stated: decode returns, for every reply, the reply with every blob
\* replaced by its text.
C15_DecodesEveryReply ==
    DecodeCalled => decRes.ok /\ DecodedFrom(decObj, decRes.val, decEnc)

\* C15: for a reply whose blobs all are valid in the encoding, decode
\* returns the reply with the same lists at every level, every blob replaced
\* by its text and every other leaf unchanged; for any other reply it raises
\* UnicodeDecodeError.
C15_DecodesDecodableReply ==
    DecodeCalled =>
        IF Decodable(decObj, decEnc)
        THEN decRes.ok /\ DecodedFrom(decObj, decRes.val, decEnc)
        ELSE decRes = [ok |-> FALSE, val |-> PyExc("UnicodeDecodeError")]

\* [[b'\xc3\xa9'], 42] decoded as UTF-8 is [['\xe9'], 42]
C15_Witness ==
    /\ decObj = PyList(<<PyList(<<PyBytes(<<195, 169>>)>>), PyInt(42)>>)
    /\ decEnc = "utf-8"
    /\ decRes.ok
    /\ decRes.val = PyList(<<PyList(<<PyStr(<<233>>)>>), PyInt(42)>>)

====
